---- MODULE Spec2Model ----
(***************************************************************************)
(* Model of PythonExample/simple_example.py: the script loads the A10x SDK *)
(* assemblies, checks the SDK version and a required feature, and then     *)
(* runs simple_example(), which connects to the device, configures it,     *)
(* acquires A-scans for a fixed time and disconnects.                      *)
(*                                                                         *)
(* The vendor SDK is a black box: every SDK call either returns or raises, *)
(* chosen nondeterministically.  Strings that the script compares are      *)
(* modelled as sequences of character codes.                               *)
(***************************************************************************)
EXTENDS Integers, Sequences, FiniteSets, TLC

(***************************************************************************)
(* Bounds of the model: the assembly versions the environment may report.  *)
(***************************************************************************)
MaxMajor == 10
MaxMinor == 1
MaxBuild == 1

(* Character codes of '.' and '0' (the f-string of check_sdk_version). *)
Dot == 46
Zero == 48

VARIABLES
    pc,               \* position of the script
    sdk_folder,       \* the path given to load_sdk_dlls
    fs,               \* the folders that exist on disk
    refs,             \* assemblies passed to clr.AddReference, in order
    imported,         \* A1052SDK and A10xIdentity are imported
    version,          \* <<Major, Minor, Build>> of the loaded assembly
    required_version, \* the argument of check_sdk_version
    sdk_version,      \* the module-level sdk_version (Optional str)
    surface,          \* attribute names present on A1052SDK
    calls,            \* SDK calls made so far, in order
    raised,           \* the calls (or steps) that raised, in order
    subscribed,       \* on_data_received is subscribed to AscanDataReceived
    pending,          \* exception in flight inside simple_example
    retval,           \* value of a return statement waiting for the finally
    success,          \* main block's variable: what simple_example returned
    exc,              \* exception that ended the script, if any
    log               \* records written through logger

vars == <<pc, sdk_folder, fs, refs, imported, version, required_version,
          sdk_version, surface, calls, raised, subscribed, pending, retval,
          success, exc, log>>

(***************************************************************************)
(* Strings                                                                 *)
(***************************************************************************)
RECURSIVE Digits(_)
(* str(n) of a non-negative int, as used by the f-string formatting *)
Digits(n) ==
    IF n < 10 THEN <<Zero + n>>
    ELSE Digits(n \div 10) \o <<Zero + (n % 10)>>

(* f"{version.Major}.{version.Minor}.{version.Build}" *)
FormatVersion(v) ==
    Digits(v[1]) \o <<Dot>> \o Digits(v[2]) \o <<Dot>> \o Digits(v[3])

RECURSIVE SplitNum(_, _, _)
(* the dotted string s as a tuple of numbers *)
SplitNum(s, acc, out) ==
    IF s = <<>> THEN Append(out, acc)
    ELSE IF s[1] = Dot THEN SplitNum(Tail(s), 0, Append(out, acc))
    ELSE SplitNum(Tail(s), acc * 10 + (s[1] - Zero), out)

RECURSIVE TupleLess(_, _)
TupleLess(x, y) ==
    IF y = <<>> THEN FALSE
    ELSE IF x = <<>> THEN TRUE
    ELSE IF x[1] # y[1] THEN x[1] < y[1]
    ELSE TupleLess(Tail(x), Tail(y))

(* Faulty variant of StrLess: the versions compared numerically per component *)
StrLessNumeric(a, b) ==
    TupleLess(SplitNum(a, 0, <<>>), SplitNum(b, 0, <<>>))

RECURSIVE StrLess(_, _)
(* Python's a < b on str: code point by code point, a proper prefix is less *)
StrLess(a, b) ==
    IF b = <<>> THEN FALSE
    ELSE IF a = <<>> THEN TRUE
    ELSE IF a[1] # b[1] THEN a[1] < b[1]
    ELSE StrLess(Tail(a), Tail(b))

(* Optional[str] *)
None == [some |-> FALSE, val |-> <<>>]
Some(s) == [some |-> TRUE, val |-> s]
(* truth value of an Optional[str]: None and "" are false *)
Truthy(x) == x.some /\ x.val # <<>>

(***************************************************************************)
(* Paths                                                                   *)
(***************************************************************************)
Roots == {"C:"}
FileDir == <<"C:", "PythonExample">>
SdkFolders == {<<"..", "sdk">>, <<"C:", "sdk">>}

isabs(p) == p # <<>> /\ p[1] \in Roots
join(a, b) == IF isabs(b) THEN b ELSE a \o b
exists(p) == p \in fs

SdkDlls == <<"A10x_SDK.dll",
             "Microsoft.Extensions.Logging.Abstractions.dll",
             "Microsoft.Extensions.DependencyInjection.Abstractions.dll",
             "System.Diagnostics.DiagnosticSource.dll">>

(***************************************************************************)
(* Logging                                                                 *)
(***************************************************************************)
Info(m) == <<"INFO", m>>
Warning(m) == <<"WARNING", m>>
Error(m) == <<"ERROR", m>>

(***************************************************************************)
(* load_sdk_dlls                                                           *)
(***************************************************************************)
(* the path after lines 24-28 *)
ResolvedFolder(p) == IF ~isabs(p) THEN join(FileDir, p) ELSE p

(* Faulty variant of load_sdk_dlls: the existence check of lines 31-33 is missing *)
load_sdk_dlls_unchecked ==
    /\ pc = "load"
    /\ LET path == ResolvedFolder(sdk_folder)
       IN /\ log' = log
          /\ refs' = refs \o [i \in 1..Len(SdkDlls) |->
                                   join(path, <<SdkDlls[i]>>)]
          /\ pc' = "import"
    /\ UNCHANGED <<sdk_folder, fs, imported, version, required_version,
                   sdk_version, surface, calls, raised, subscribed, pending,
                   retval, success, exc>>

load_sdk_dlls ==
    /\ pc = "load"
    /\ LET rel == ~isabs(sdk_folder)
           path == ResolvedFolder(sdk_folder)
           warn == IF rel THEN <<Warning("SDK folder path is relative")>>
                   ELSE <<>>
       IN IF ~exists(path)
          THEN /\ log' = log \o warn
                        \o <<Error("Dependencies directory does not exist")>>
               /\ exc' = "FileNotFoundError"
               /\ pc' = "crashed"
               /\ refs' = refs
          ELSE /\ log' = log \o warn
               /\ refs' = refs \o [i \in 1..Len(SdkDlls) |->
                                        join(path, <<SdkDlls[i]>>)]
               /\ exc' = exc
               /\ pc' = "import"
    /\ UNCHANGED <<sdk_folder, fs, imported, version, required_version,
                   sdk_version, surface, calls, raised, subscribed, pending,
                   retval, success>>

(* from A10x_SDK import A1052SDK, A10xIdentity *)
ImportSdk ==
    /\ pc = "import"
    /\ imported' = TRUE
    /\ pc' = "version"
    /\ UNCHANGED <<sdk_folder, fs, refs, version, required_version,
                   sdk_version, surface, calls, raised, subscribed, pending,
                   retval, success, exc, log>>

(***************************************************************************)
(* has_feature and check_sdk_version                                       *)
(***************************************************************************)
(* getattr(A1052SDK, name): the attribute, or AttributeError *)
getattr(name) ==
    IF name \in surface THEN [ok |-> TRUE, exc |-> "none"]
    ELSE [ok |-> FALSE, exc |-> "AttributeError"]

(* Faulty variant of has_feature: the AttributeError is not turned into False *)
has_feature_always(feature_name) == TRUE

has_feature(feature_name) ==
    IF getattr(feature_name).exc = "AttributeError" THEN FALSE ELSE TRUE

(* assemblyOk: GetAssembly/GetName().Version returned without raising *)
check_sdk_version(required, assemblyOk) ==
    IF ~assemblyOk
    THEN [ret |-> None,
          log |-> <<Error("Version check failed: assembly lookup raised")>>]
    ELSE LET version_str == FormatVersion(version)
         IN IF StrLess(version_str, required)
            THEN [ret |-> None,
                  log |-> <<Info("A10x SDK Version"),
                            Error("Version check failed: below required")>>]
            ELSE [ret |-> Some(version_str),
                  log |-> <<Info("A10x SDK Version")>>]

env == <<sdk_folder, fs, refs, imported, version, required_version, surface>>

(* Faulty variant of CheckVersion: an unverified version stops the script *)
CheckVersionHardStop ==
    /\ pc = "version"
    /\ \E assemblyOk \in BOOLEAN :
          LET r == check_sdk_version(required_version, assemblyOk)
          IN /\ sdk_version' = r.ret
             /\ log' = log \o r.log
             /\ IF ~Truthy(r.ret)
                THEN pc' = "crashed" /\ exc' = "Exception"
                ELSE pc' = "main" /\ exc' = exc
    /\ UNCHANGED <<env, calls, raised, subscribed, pending, retval, success>>

(* lines 76-78: sdk_version = check_sdk_version(...); warn if not sdk_version *)
CheckVersion ==
    /\ pc = "version"
    /\ \E assemblyOk \in BOOLEAN :
          LET r == check_sdk_version(required_version, assemblyOk)
          IN /\ sdk_version' = r.ret
             /\ log' = log \o r.log \o
                   (IF ~Truthy(r.ret)
                    THEN <<Warning("Cannot verify SDK version")>>
                    ELSE <<>>)
    /\ pc' = "main"
    /\ UNCHANGED <<env, calls, raised, subscribed, pending, retval, success,
                   exc>>

(* lines 156-158: the main block calls simple_example *)
Main ==
    /\ pc = "main"
    /\ log' = log \o <<Info("Starting simple A10x SDK example...")>>
    /\ pc' = "identify"
    /\ UNCHANGED <<env, sdk_version, calls, raised, subscribed, pending,
                   retval, success, exc>>

(***************************************************************************)
(* simple_example: before the try block                                    *)
(***************************************************************************)
DeviceIp == "192.168.137.123"

(* an SDK call outside the try block raises: nothing catches it *)
Escapes(call) ==
    /\ calls' = Append(calls, call)
    /\ raised' = Append(raised, call[1])
    /\ exc' = "Exception"
    /\ pc' = "crashed"
    /\ UNCHANGED <<log, success>>

IdentifyDevice ==
    /\ pc = "identify"
    /\ \/ /\ calls' = Append(calls, <<"IdentifyDevice", DeviceIp>>)
          /\ pc' = "devinfo"
          /\ UNCHANGED <<raised, exc, log, success>>
       \/ /\ calls' = Append(calls, <<"IdentifyDevice", DeviceIp>>)
          /\ log' = log \o <<Error("Cannot identify device")>>
          /\ success' = "False"
          /\ pc' = "report"
          /\ UNCHANGED <<raised, exc>>
       \/ Escapes(<<"IdentifyDevice", DeviceIp>>)
    /\ UNCHANGED <<env, sdk_version, subscribed, pending, retval>>

GetDeviceInfo ==
    /\ pc = "devinfo"
    /\ \/ /\ calls' = Append(calls, <<"GetDeviceInfo", DeviceIp>>)
          /\ log' = log \o <<Info("Connected to device: Serial, MAC")>>
          /\ pc' = "construct"
          /\ UNCHANGED <<raised, exc, success>>
       \/ Escapes(<<"GetDeviceInfo", DeviceIp>>)
    /\ UNCHANGED <<env, sdk_version, subscribed, pending, retval>>

(* sdk = A1052SDK() *)
Construct ==
    /\ pc = "construct"
    /\ \/ /\ calls' = Append(calls, <<"A1052SDK">>)
          /\ pc' = "feature"
          /\ UNCHANGED <<raised, exc, log, success>>
       \/ Escapes(<<"A1052SDK">>)
    /\ UNCHANGED <<env, sdk_version, subscribed, pending, retval>>

(* lines 103-105 *)
CheckFeature ==
    /\ pc = "feature"
    /\ IF ~has_feature("SetGain")
       THEN /\ log' = log \o
                 <<Error("Required feature 'SetGain' is not available")>>
            /\ success' = "False"
            /\ pc' = "report"
       ELSE /\ pc' = "connect"
            /\ UNCHANGED <<log, success>>
    /\ UNCHANGED <<env, sdk_version, calls, raised, subscribed, pending,
                   retval, exc>>

(***************************************************************************)
(* simple_example: the try block                                           *)
(***************************************************************************)
(* a step of the try block returns *)
Returns(call, next, msgs) ==
    /\ calls' = Append(calls, call)
    /\ pc' = next
    /\ log' = log \o msgs
    /\ UNCHANGED <<raised, pending>>

(* a step of the try block raises kind: control goes to the except clause *)
Raises(call, kind) ==
    /\ calls' = Append(calls, call)
    /\ raised' = Append(raised, call[1])
    /\ pending' = kind
    /\ pc' = "except"
    /\ UNCHANGED log

Connect ==
    /\ pc = "connect"
    /\ \/ Returns(<<"Connect", DeviceIp>>, "gain",
                  <<Info("Connected to device")>>)
       \/ Raises(<<"Connect", DeviceIp>>, "Exception")
    /\ UNCHANGED <<env, sdk_version, subscribed, retval, success, exc>>

SetGain ==
    /\ pc = "gain"
    /\ \/ Returns(<<"SetGain", 10>>, "averaging", <<>>)
       \/ Raises(<<"SetGain", 10>>, "Exception")
    /\ UNCHANGED <<env, sdk_version, subscribed, retval, success, exc>>

SetAscanAveraging ==
    /\ pc = "averaging"
    /\ \/ Returns(<<"SetAscanAveraging", 1>>, "prr", <<>>)
       \/ Raises(<<"SetAscanAveraging", 1>>, "Exception")
    /\ UNCHANGED <<env, sdk_version, subscribed, retval, success, exc>>

SetPulseRepetitionRate ==
    /\ pc = "prr"
    /\ \/ Returns(<<"SetPulseRepetitionRate", 3>>, "quadro", <<>>)
       \/ Raises(<<"SetPulseRepetitionRate", 3>>, "Exception")
    /\ UNCHANGED <<env, sdk_version, subscribed, retval, success, exc>>

SetQuadro8x4Transmitter ==
    /\ pc = "quadro"
    /\ \/ Returns(<<"SetQuadro8x4Transmitter", 0>>, "single", <<>>)
       \/ Raises(<<"SetQuadro8x4Transmitter", 0>>, "Exception")
    /\ UNCHANGED <<env, sdk_version, subscribed, retval, success, exc>>

(* Faulty variant of SetSingle8x4Transmitter: acquisition starts with no handler *)
SetSingleThenStart ==
    /\ pc = "single"
    /\ \/ Returns(<<"SetSingle8x4Transmitter", 0>>, "start", <<>>)
       \/ Raises(<<"SetSingle8x4Transmitter", 0>>, "Exception")
    /\ UNCHANGED <<env, sdk_version, subscribed, retval, success, exc>>

SetSingle8x4Transmitter ==
    /\ pc = "single"
    /\ \/ Returns(<<"SetSingle8x4Transmitter", 0>>, "subscribe", <<>>)
       \/ Raises(<<"SetSingle8x4Transmitter", 0>>, "Exception")
    /\ UNCHANGED <<env, sdk_version, subscribed, retval, success, exc>>

(* sdk.AscanDataReceived += on_data_received *)
Subscribe ==
    /\ pc = "subscribe"
    /\ \/ /\ Returns(<<"Subscribe">>, "start", <<>>)
          /\ subscribed' = TRUE
       \/ /\ Raises(<<"Subscribe">>, "Exception")
          /\ UNCHANGED subscribed
    /\ UNCHANGED <<env, sdk_version, retval, success, exc>>

StartAscanSingleTransmitter ==
    /\ pc = "start"
    /\ \/ Returns(<<"StartAscanSingleTransmitter">>, "sleep",
                  <<Info("Started data acquisition...")>>)
       \/ Raises(<<"StartAscanSingleTransmitter">>, "Exception")
    /\ UNCHANGED <<env, sdk_version, subscribed, retval, success, exc>>

(* time.sleep(5): returns, or is interrupted (Ctrl-C raises KeyboardInterrupt,
   a signal handler may raise an Exception) *)
Sleep ==
    /\ pc = "sleep"
    /\ \/ Returns(<<"sleep", 5>>, "stop", <<>>)
       \/ \E kind \in {"Exception", "KeyboardInterrupt"} :
             Raises(<<"sleep", 5>>, kind)
    /\ UNCHANGED <<env, sdk_version, subscribed, retval, success, exc>>

(* Faulty variant of StopAcquisition: the handler is removed even when Stop raises *)
StopAcquisitionUnsubscribes ==
    /\ pc = "stop"
    /\ \/ /\ Returns(<<"StopAcquisition">>, "unsubscribe",
                     <<Info("Stopped data acquisition")>>)
          /\ UNCHANGED subscribed
       \/ /\ Raises(<<"StopAcquisition">>, "Exception")
          /\ subscribed' = FALSE
    /\ UNCHANGED <<env, sdk_version, retval, success, exc>>

StopAcquisition ==
    /\ pc = "stop"
    /\ \/ Returns(<<"StopAcquisition">>, "unsubscribe",
                  <<Info("Stopped data acquisition")>>)
       \/ Raises(<<"StopAcquisition">>, "Exception")
    /\ UNCHANGED <<env, sdk_version, subscribed, retval, success, exc>>

(* sdk.AscanDataReceived -= on_data_received *)
Unsubscribe ==
    /\ pc = "unsubscribe"
    /\ \/ /\ Returns(<<"Unsubscribe">>, "return", <<>>)
          /\ subscribed' = FALSE
       \/ /\ Raises(<<"Unsubscribe">>, "Exception")
          /\ UNCHANGED subscribed
    /\ UNCHANGED <<env, sdk_version, retval, success, exc>>

(* line 145: return True; the finally clause runs before the caller resumes *)
ReturnTrue ==
    /\ pc = "return"
    /\ retval' = "True"
    /\ pc' = "finally"
    /\ UNCHANGED <<env, sdk_version, calls, raised, subscribed, pending,
                   success, exc, log>>

(* lines 147-149: except Exception as e *)
Except ==
    /\ pc = "except"
    /\ IF pending = "Exception"
       THEN /\ log' = log \o <<Error("Error during operation")>>
            /\ retval' = "False"
            /\ pending' = "none"
       ELSE UNCHANGED <<log, retval, pending>>
    /\ pc' = "finally"
    /\ UNCHANGED <<env, sdk_version, calls, raised, subscribed, success, exc>>

(* Faulty variant of Disconnect: the call sits at the end of the try block instead of
   in a finally clause, so it runs only when nothing was raised *)
DisconnectOnSuccessOnly ==
    /\ pc = "finally"
    /\ IF retval = "True"
       THEN /\ calls' = Append(calls, <<"Disconnect">>)
            /\ log' = log \o <<Info("Disconnected from device")>>
            /\ success' = retval
            /\ pc' = "report"
            /\ UNCHANGED exc
       ELSE /\ IF pending # "none"
               THEN exc' = pending /\ pc' = "crashed" /\ UNCHANGED success
               ELSE success' = retval /\ pc' = "report" /\ UNCHANGED exc
            /\ UNCHANGED <<calls, log>>
    /\ UNCHANGED <<env, sdk_version, raised, subscribed, pending, retval>>

(* lines 151-154: finally: sdk.Disconnect(); then the pending return or
   exception takes effect, unless Disconnect itself raised *)
Disconnect ==
    /\ pc = "finally"
    /\ calls' = Append(calls, <<"Disconnect">>)
    /\ \/ /\ log' = log \o <<Info("Disconnected from device")>>
          /\ IF pending # "none"
             THEN /\ exc' = pending
                  /\ pc' = "crashed"
                  /\ UNCHANGED success
             ELSE /\ success' = retval
                  /\ pc' = "report"
                  /\ UNCHANGED exc
          /\ UNCHANGED raised
       \/ /\ raised' = Append(raised, "Disconnect")
          /\ exc' = "Exception"
          /\ pc' = "crashed"
          /\ UNCHANGED <<log, success>>
    /\ UNCHANGED <<env, sdk_version, subscribed, pending, retval>>

(* lines 160-163 *)
Report ==
    /\ pc = "report"
    /\ log' = log \o (IF success = "True"
                      THEN <<Info("Example completed successfully!")>>
                      ELSE <<Error("Example failed!")>>)
    /\ pc' = "done"
    /\ UNCHANGED <<env, sdk_version, calls, raised, subscribed, pending,
                   retval, success, exc>>

(***************************************************************************)
(* The script                                                              *)
(***************************************************************************)
(* the members of A1052SDK the script uses without probing for them *)
CoreSurface ==
    {"Connect", "SetAscanAveraging", "SetPulseRepetitionRate",
     "SetQuadro8x4Transmitter", "SetSingle8x4Transmitter",
     "AscanDataReceived", "StartAscanSingleTransmitter", "StopAcquisition",
     "Disconnect"}

RequiredVersions ==
    {FormatVersion(<<1, 0, 0>>), FormatVersion(<<9, 0, 0>>),
     FormatVersion(<<10, 0, 0>>)}

Init ==
    /\ pc = "load"
    /\ sdk_folder \in SdkFolders
    /\ fs \in SUBSET {ResolvedFolder(p) : p \in SdkFolders}
    /\ refs = <<>>
    /\ imported = FALSE
    /\ version \in (0..MaxMajor) \X (0..MaxMinor) \X (0..MaxBuild)
    /\ required_version \in RequiredVersions
    /\ sdk_version = None
    /\ surface \in {CoreSurface \cup opt :
                       opt \in SUBSET {"SetGain", "ChangeDeviceIp"}}
    /\ calls = <<>>
    /\ raised = <<>>
    /\ subscribed = FALSE
    /\ pending = "none"
    /\ retval = "none"
    /\ success = "none"
    /\ exc = "none"
    /\ log = <<>>

Next ==
    \/ load_sdk_dlls
    \/ ImportSdk
    \/ CheckVersion
    \/ Main
    \/ IdentifyDevice
    \/ GetDeviceInfo
    \/ Construct
    \/ CheckFeature
    \/ Connect
    \/ SetGain
    \/ SetAscanAveraging
    \/ SetPulseRepetitionRate
    \/ SetQuadro8x4Transmitter
    \/ SetSingle8x4Transmitter
    \/ Subscribe
    \/ StartAscanSingleTransmitter
    \/ Sleep
    \/ StopAcquisition
    \/ Unsubscribe
    \/ ReturnTrue
    \/ Except
    \/ Disconnect
    \/ Report

Spec == Init /\ [][Next]_vars

(***************************************************************************)
(* Vocabulary of the properties                                            *)
(***************************************************************************)
CallNames == [i \in DOMAIN calls |-> calls[i][1]]
Called(name) == \E i \in DOMAIN calls : calls[i][1] = name
Count(name) == Cardinality({i \in DOMAIN calls : calls[i][1] = name})
Raised(name) == \E i \in DOMAIN raised : raised[i] = name
Logged(rec) == \E i \in DOMAIN log : log[i] = rec
Completed(name) == Called(name) /\ ~Raised(name)
Before(a, b) ==
    \A j \in DOMAIN calls : calls[j][1] = b =>
        \E i \in 1..(j - 1) : calls[i][1] = a

(* simple_example is over: it returned to the main block, or it raised *)
Returned == pc \in {"report", "done"}
Propagated == pc = "crashed" /\ exc # "FileNotFoundError"
Ended == Returned \/ Propagated

PreTryCalls == {"IdentifyDevice", "GetDeviceInfo", "A1052SDK"}
ConfigCalls == <<"SetGain", "SetAscanAveraging", "SetPulseRepetitionRate",
                 "SetQuadro8x4Transmitter", "SetSingle8x4Transmitter">>
TrySteps == <<"Connect">> \o ConfigCalls \o
            <<"Subscribe", "StartAscanSingleTransmitter", "sleep",
              "StopAcquisition", "Unsubscribe">>
TryStepSet == {TrySteps[i] : i \in DOMAIN TrySteps}
TrySdkCalls == TryStepSet \ {"Subscribe", "sleep", "Unsubscribe"}
TryRaised == \E i \in DOMAIN raised : raised[i] \in TryStepSet

ErrOperation == Error("Error during operation")
ErrFeature == Error("Required feature 'SetGain' is not available")
ErrIdentify == Error("Cannot identify device")
MsgSuccess == Info("Example completed successfully!")
MsgFailed == Error("Example failed!")

(* a < b in lexical order, by the first position where they differ *)
LexLess(a, b) ==
    \E k \in 1..Len(b) :
        /\ \A i \in 1..(k - 1) : i <= Len(a) /\ a[i] = b[i]
        /\ (k > Len(a) \/ a[k] < b[k])

(* the version check of line 76 has run *)
VersionChecked == imported /\ pc \notin {"import", "version"}

(***************************************************************************)
(* C1: once Connect has been attempted, Disconnect is invoked exactly once *)
(* before simple_example ends, whichever step of the try block raised (or  *)
(* none); it is never invoked twice, and it is the last SDK call.          *)
(***************************************************************************)
C1_DisconnectExactlyOnce ==
    /\ Count("Disconnect") <= 1
    /\ (Called("Connect") /\ Ended) =>
          /\ Count("Disconnect") = 1
          /\ CallNames[Len(calls)] = "Disconnect"
    /\ \A i \in DOMAIN TrySteps :
          (Raised(TrySteps[i]) /\ Ended) => Count("Disconnect") = 1

C1_Witness ==
    /\ pc = "done"
    /\ raised = <<"StopAcquisition">>
    /\ Count("Disconnect") = 1

(***************************************************************************)
(* C2: whenever a step of the try block raised an Exception,               *)
(* simple_example has logged the error, returned False (never True) and    *)
(* invoked Disconnect.                                                     *)
(***************************************************************************)
C2_FailureReturnsFalse ==
    (TryRaised /\ Ended /\ pending # "KeyboardInterrupt") =>
        /\ Logged(ErrOperation)
        /\ Returned /\ success = "False"
        /\ Called("Disconnect")

(* What the code does on those runs: the error is logged, Disconnect is
   invoked and True is never returned; False is returned unless Disconnect
   raises in the finally clause, and then the exception reaches the caller. *)
C2_ActualBehaviour ==
    (TryRaised /\ Ended /\ pending # "KeyboardInterrupt") =>
        /\ Called("Disconnect")
        /\ Logged(ErrOperation)
        /\ success # "True"
        /\ ~Raised("Disconnect") => (Returned /\ success = "False")
        /\ Raised("Disconnect") => (Propagated /\ success = "none")

(***************************************************************************)
(* C3: has_feature(name) is False exactly for the names that are not       *)
(* attributes of A1052SDK; when 'SetGain' is absent Connect is never       *)
(* invoked, and the run that reaches the probe logs the error and returns  *)
(* False.                                                                  *)
(***************************************************************************)
C3_MissingFeatureAborts ==
    /\ \A f \in {"SetGain", "ChangeDeviceIp", "Connect", "NoSuchFeature"} :
          has_feature(f) <=> f \in surface
    /\ "SetGain" \notin surface =>
          /\ ~Called("Connect")
          /\ (Completed("A1052SDK") /\ pc # "feature") =>
                /\ Returned
                /\ success = "False"
                /\ Logged(ErrFeature)
                /\ CallNames[Len(calls)] = "A1052SDK"

C3_Witness ==
    /\ pc = "done"
    /\ "SetGain" \notin surface
    /\ Completed("A1052SDK")
    /\ success = "False"
    /\ Logged(ErrFeature)

(***************************************************************************)
(* C4: when the resolved SDK folder does not exist, load_sdk_dlls raises   *)
(* FileNotFoundError with no AddReference made, and nothing of the SDK is  *)
(* used afterwards: no import, no version check, no SDK call.              *)
(***************************************************************************)
C4_MissingFolderRaisesFirst ==
    ~exists(ResolvedFolder(sdk_folder)) =>
        /\ pc \in {"load", "crashed"}
        /\ pc = "crashed" => exc = "FileNotFoundError"
        /\ refs = <<>>
        /\ ~imported
        /\ sdk_version = None
        /\ calls = <<>>
        /\ \A i \in DOMAIN log : log[i][1] # "INFO"

C4_Witness ==
    /\ pc = "crashed"
    /\ exc = "FileNotFoundError"
    /\ ~exists(ResolvedFolder(sdk_folder))
    /\ refs = <<>>

(***************************************************************************)
(* C5: when the formatted version is lexically less than the required one, *)
(* check_sdk_version logs an error and returns None without raising; the   *)
(* script logs a warning and goes on to the main block and simple_example. *)
(***************************************************************************)
C5_VersionFailureIsSoft ==
    (VersionChecked /\ LexLess(FormatVersion(version), required_version)) =>
        /\ sdk_version = None
        /\ Logged(Error("Version check failed: below required"))
           \/ Logged(Error("Version check failed: assembly lookup raised"))
        /\ Logged(Warning("Cannot verify SDK version"))
        /\ pc = "main" \/ Logged(Info("Starting simple A10x SDK example..."))
        /\ pc \notin {"main", "identify"} => Called("IdentifyDevice")
        /\ pc = "crashed" => raised # <<>>

C5_Witness ==
    /\ pc = "done"
    /\ LexLess(FormatVersion(version), required_version)
    /\ sdk_version = None
    /\ Logged(Error("Version check failed: below required"))
    /\ success = "True"

(***************************************************************************)
(* C6: on a run where no SDK call fails the calls are made in the fixed    *)
(* order IdentifyDevice, GetDeviceInfo, Connect, the five configuration    *)
(* calls, subscription, Start, sleep, Stop, unsubscription, Disconnect,    *)
(* each once: acquisition starts only after Connect, the configuration and *)
(* the subscription, and the handler is removed before Disconnect.         *)
(***************************************************************************)
ExpectedOrder ==
    <<"IdentifyDevice", "GetDeviceInfo">> \o TrySteps \o <<"Disconnect">>

(* the calls the claim lists (the constructor is not one of them) *)
ListedCalls == SelectSeq(CallNames, LAMBDA n : n # "A1052SDK")

C6_FixedCallOrder ==
    /\ raised = <<>> =>
          /\ Len(ListedCalls) <= Len(ExpectedOrder)
          /\ ListedCalls = SubSeq(ExpectedOrder, 1, Len(ListedCalls))
    /\ (Returned /\ raised = <<>> /\ ~Logged(ErrIdentify)
          /\ "SetGain" \in surface) =>
          ListedCalls = ExpectedOrder
    /\ Called("StartAscanSingleTransmitter") =>
          /\ \A i \in DOMAIN ConfigCalls : Completed(ConfigCalls[i])
          /\ Completed("Connect") /\ Completed("Subscribe")
          /\ Before("Subscribe", "StartAscanSingleTransmitter")
    /\ (raised = <<>> /\ Called("Disconnect")) =>
          /\ Before("Unsubscribe", "Disconnect")
          /\ ~subscribed

C6_Witness ==
    /\ pc = "done"
    /\ raised = <<>>
    /\ ListedCalls = ExpectedOrder

(***************************************************************************)
(* C7: whichever SDK call of simple_example raised (IdentifyDevice,        *)
(* GetDeviceInfo, the constructor, Connect, the configuration calls,       *)
(* Start, Stop, Disconnect), simple_example logs an error and returns      *)
(* False; the exception does not reach the caller.                         *)
(***************************************************************************)
C7_AllErrorsCaught ==
    (Ended /\ \E i \in DOMAIN raised :
                 raised[i] \in PreTryCalls \cup TrySdkCalls \cup {"Disconnect"})
        => /\ Returned
           /\ success = "False"
           /\ Logged(ErrOperation)

(* What the code does: an Exception of a call of the try block is caught and
   logged; one raised by IdentifyDevice, GetDeviceInfo, the constructor or
   Disconnect reaches the caller. *)
C7_ActualBehaviour ==
    /\ \A n \in PreTryCalls : Raised(n) =>
          /\ Propagated /\ exc = "Exception" /\ success = "none"
          /\ ~Logged(ErrOperation)
          /\ ~Called("Disconnect")
    /\ Raised("Disconnect") =>
          Propagated /\ exc = "Exception" /\ success = "none"
    /\ \A n \in TrySdkCalls : Raised(n) =>
          /\ pc = "except" \/ Logged(ErrOperation)
          /\ (Ended /\ ~Raised("Disconnect")) =>
                (Returned /\ success = "False")

(***************************************************************************)
(* C8: check_sdk_version returns the version string exactly when it is not *)
(* lexically less than required_version: "10.0.0" against "9.0.0" gives    *)
(* None, "9.0.0" against "10.0.0" is accepted.                             *)
(***************************************************************************)
C8_LexicalComparison ==
    (VersionChecked /\ Logged(Info("A10x SDK Version"))) =>
        /\ sdk_version =
              IF LexLess(FormatVersion(version), required_version)
              THEN None ELSE Some(FormatVersion(version))
        /\ (version = <<10, 0, 0>>
              /\ required_version = <<57, 46, 48, 46, 48>>) =>
              sdk_version = None
        /\ (version = <<9, 0, 0>>
              /\ required_version = <<49, 48, 46, 48, 46, 48>>) =>
              sdk_version = Some(<<57, 46, 48, 46, 48>>)

C8_Witness ==
    /\ VersionChecked
    /\ Logged(Info("A10x SDK Version"))
    /\ version = <<10, 0, 0>>
    /\ required_version = <<57, 46, 48, 46, 48>>
    /\ sdk_version = None

(***************************************************************************)
(* C9: simple_example returns True exactly when IdentifyDevice succeeded,  *)
(* 'SetGain' is present and every step from Connect to the unsubscription  *)
(* completed without an exception; the main block logs the success message *)
(* exactly on those runs and the failure message on every other run that   *)
(* returns.                                                                *)
(***************************************************************************)
TryCompleted ==
    /\ Completed("IdentifyDevice") /\ ~Logged(ErrIdentify)
    /\ "SetGain" \in surface
    /\ \A i \in DOMAIN TrySteps : Completed(TrySteps[i])

C9_TrueIffAllStepsCompleted ==
    /\ Ended => ((Returned /\ success = "True") <=> TryCompleted)
    /\ pc = "done" =>
          /\ Logged(MsgSuccess) <=> TryCompleted
          /\ Logged(MsgFailed) <=> ~TryCompleted

(* What the code does: True is returned exactly when, in addition,
   Disconnect returned; the main block's message follows the value returned,
   and no message is logged when simple_example raised. *)
C9_ActualBehaviour ==
    /\ Ended => ((Returned /\ success = "True") <=>
                    (TryCompleted /\ Completed("Disconnect")))
    /\ pc = "done" =>
          /\ Logged(MsgSuccess) <=> success = "True"
          /\ Logged(MsgFailed) <=> success # "True"
    /\ pc # "done" => ~Logged(MsgSuccess) /\ ~Logged(MsgFailed)

(***************************************************************************)
(* C10: StopAcquisition and the unsubscription happen only when every      *)
(* earlier step succeeded: Stop is invoked at most once and only after     *)
(* Start returned; when Start, the sleep or Stop raises, no unsubscription *)
(* happens and Disconnect is invoked with the handler still subscribed.    *)
(***************************************************************************)
StepsBefore(name) ==
    {TrySteps[i] : i \in {j \in DOMAIN TrySteps :
                            \E k \in DOMAIN TrySteps :
                                j < k /\ TrySteps[k] = name}}

C10_StopOnlyOnSuccessPath ==
    /\ Count("StopAcquisition") <= 1
    /\ Count("Unsubscribe") <= 1
    /\ \A n \in {"StopAcquisition", "Unsubscribe"} : Called(n) =>
          \A m \in StepsBefore(n) : Completed(m) /\ Before(m, n)
    /\ (\E n \in {"StartAscanSingleTransmitter", "sleep", "StopAcquisition"} :
            Raised(n)) =>
          /\ subscribed
          /\ ~Called("Unsubscribe")
          /\ Ended => Called("Disconnect")

C10_Witness ==
    /\ pc = "crashed"
    /\ raised = <<"sleep">>
    /\ exc = "KeyboardInterrupt"
    /\ subscribed
    /\ Called("Disconnect")
====
